---------------------------- MODULE Spec2Model ----------------------------
(***************************************************************************)
(* Model of src/scrape_vvvfast.py: the harvest loop scroll_and_collect_all *)
(* with extract_new_products, run against a page (the browser document     *)
(* reached through page.evaluate), and main, which opens the session and   *)
(* the product table, calls the loop and saves what it returns.            *)
(*                                                                         *)
(* A text is a sequence of one-character strings, so that String.trim is   *)
(* modelled by what it does.  Python's None is the empty tuple << >> and a *)
(* present value v of an optional is << v >>.                              *)
(***************************************************************************)
EXTENDS Integers, Sequences, FiniteSets, TLC

VARIABLES
    run,    \* run[i]: the locals of one call of scroll_and_collect_all
    page,   \* the document: table presence, rendered rows, scroll geometry
    obs,    \* history of what run[1] read from and wrote to the page
    main    \* main: its position, the session it saw, what it saved

vars == <<run, page, obs, main>>

-----------------------------------------------------------------------------
(* Bounds of the model *)

MaxRounds == 3
MaxRows == 2
MaxPageChanges == 3
MaxTermRounds == 8
MaxTermChanges == 2
MaxScrollHeight == 7
MaxHintRounds == 30
MaxResolveRounds == 2
MaxAcceptRounds == 2
MaxAcceptChanges == 2

(* Program constants *)

safety_ceiling == 20000
no_progress_limit == 5
progress_every == 25
default_target_count == 2849

-----------------------------------------------------------------------------
(* Generic helpers *)

Min(a, b) == IF a <= b THEN a ELSE b

Max(a, b) == IF a >= b THEN a ELSE b

None == << >>

Some(v) == << v >>

\* dict.get(k): None when the key is missing
Get(d, k) == IF k \in DOMAIN d THEN Some(d[k]) ELSE None

\* dict.get(k, 0)
GetOr0(d, k) == IF k \in DOMAIN d THEN d[k] ELSE 0

SeqsUpTo(S, n) == UNION { [1..k -> S] : k \in 0..n }

Range(s) == { s[i] : i \in DOMAIN s }

-----------------------------------------------------------------------------
(* Texts and String.prototype.trim *)

Space == " "

RECURSIVE TrimLeft(_)
TrimLeft(t) ==
    IF t # << >> /\ Head(t) = Space THEN TrimLeft(Tail(t)) ELSE t

RECURSIVE TrimRight(_)
TrimRight(t) ==
    IF t # << >> /\ t[Len(t)] = Space
        THEN TrimRight(SubSeq(t, 1, Len(t) - 1))
        ELSE t

trim(t) == TrimRight(TrimLeft(t))

-----------------------------------------------------------------------------
(* The document.  page.anc is the chain table, parent, grandparent, ...,    *)
(* written out as far as the page needs (a chain without a body element    *)
(* ends below document.body); page.desc are the elements of the            *)
(* table's subtree in document order.  An element is                       *)
(* [tag, oy, sh, ch, top]: tag name, computed overflow-y, scrollHeight,    *)
(* clientHeight, scrollTop.  page.rows are the tr elements under tbody,    *)
(* each [shown, tds] with the raw innerText of its cells.  page.data is    *)
(* the logical dataset of a virtualized table (<< >> when the rows are not *)
(* driven by the scroll position), page.rowH its row height and page.win   *)
(* the number of rows it renders.  page.feed says that the scroller is an  *)
(* endless feed, which appends a viewport of content whenever the scroll   *)
(* position comes within a viewport of the end.                            *)

NoScroller == None

IsScrollable(e) ==
    /\ e.oy \in {"auto", "scroll"}
    /\ e.sh > e.ch + 1

getScrollerPastBody(pg) ==
    LET up   == { i \in DOMAIN pg.anc : IsScrollable(pg.anc[i]) }
        down == { j \in DOMAIN pg.desc :
                    pg.desc[j].tag = "div" /\ IsScrollable(pg.desc[j]) }
    IN  IF up # {}
            THEN <<"anc", CHOOSE i \in up : \A k \in up : i <= k>>
        ELSE IF down # {}
            THEN <<"desc", CHOOSE j \in down : \A k \in down : j <= k>>
        ELSE NoScroller

\* the nodes the while loop of getScroller visits: the table and its
\* ancestors as far as document.body, body excluded
BelowBody(pg) ==
    { i \in DOMAIN pg.anc : \A k \in 1..i : pg.anc[k].tag # "body" }

\* getScroller of the JS snippets: nearest scrollable ancestor-or-self of the
\* table below body, else the first scrollable div inside the table, else null
getScroller(pg) ==
    LET up   == { i \in BelowBody(pg) : IsScrollable(pg.anc[i]) }
        down == { j \in DOMAIN pg.desc :
                    pg.desc[j].tag = "div" /\ IsScrollable(pg.desc[j]) }
    IN  IF up # {}
            THEN <<"anc", CHOOSE i \in up : \A k \in up : i <= k>>
        ELSE IF down # {}
            THEN <<"desc", CHOOSE j \in down : \A k \in down : j <= k>>
        ELSE NoScroller

ElementAt(pg, s) == IF s[1] = "anc" THEN pg.anc[s[2]] ELSE pg.desc[s[2]]

MaxScrollTop(e) == Max(e.sh - e.ch, 0)

\* rows a virtualized table renders at scroll position top: a window of
\* `win` rows starting at the row under the top edge
Window(data, rowH, win, top) ==
    LET first == Min(top \div rowH, Max(Len(data) - win, 0)) + 1
    IN  SubSeq(data, first, Min(first + win - 1, Len(data)))

SetScrollTopEverywhere(pg, s, v) ==
    [pg EXCEPT !.anc  = [i \in DOMAIN pg.anc |-> [pg.anc[i] EXCEPT !.top = Max(0, v)]],
               !.desc = [j \in DOMAIN pg.desc |-> [pg.desc[j] EXCEPT !.top = Max(0, v)]]]

\* the element's scrollTop setter: the browser clamps the value to
\* [0, scrollHeight - clientHeight]; then the page's scroll handler runs: a
\* virtualized table re-renders its window, an endless feed appends content
SetScrollTop(pg, s, v) ==
    LET e   == ElementAt(pg, s)
        t   == Max(0, Min(v, MaxScrollTop(e)))
        sh2 == IF pg.feed /\ t >= MaxScrollTop(e) - e.ch THEN e.sh + e.ch ELSE e.sh
        e2  == [e EXCEPT !.top = t, !.sh = sh2]
        pg2 == IF s[1] = "anc"
                 THEN [pg EXCEPT !.anc[s[2]] = e2]
                 ELSE [pg EXCEPT !.desc[s[2]] = e2]
    IN  IF pg.data # << >>
            THEN [pg2 EXCEPT !.rows = Window(pg.data, pg.rowH, pg.win, t)]
            ELSE pg2

-----------------------------------------------------------------------------
(* extract_new_products *)

EvaluateRowsWithoutLookup(pg) ==
    LET shown == SelectSeq(pg.rows, LAMBDA r : r.shown)
    IN  [i \in DOMAIN shown |->
           [j \in DOMAIN shown[i].tds |-> trim(shown[i].tds[j])]]

\* the page.evaluate of lines 161-172: [] without a table, else the trimmed
\* cell texts of every laid-out row
EvaluateRows(pg) ==
    IF ~pg.table THEN << >>
    ELSE LET shown == SelectSeq(pg.rows, LAMBDA r : r.shown)
         IN  [i \in DOMAIN shown |->
                [j \in DOMAIN shown[i].tds |-> trim(shown[i].tds[j])]]

\* cells[i] if len(cells) > i else ""
Cell(cells, i) == IF Len(cells) > i THEN cells[i + 1] ELSE << >>

MakeItem(cells) ==
    [ id         |-> cells[1],
      category   |-> Cell(cells, 1),
      color      |-> Cell(cells, 2),
      dimensions |-> Cell(cells, 3),
      price      |-> Cell(cells, 4),
      product    |-> Cell(cells, 5),
      score      |-> Cell(cells, 6),
      cells      |-> cells ]

AddSeenForgotten(seen_ids, row_id) == seen_ids

\* seen_ids.add(row_id)
AddSeen(seen_ids, row_id) == seen_ids \cup {row_id}

AcceptRowUnfiltered(acc, cells) ==
    IF cells = << >> THEN acc
    ELSE IF cells[1] = << >> THEN acc
    ELSE [ seen  |-> acc.seen \cup {cells[1]},
           items |-> Append(acc.items, MakeItem(cells)) ]

AcceptRowBlankKey(acc, cells) ==
    IF cells = << >> THEN acc
    ELSE IF cells[1] \in acc.seen THEN acc
    ELSE [ seen  |-> AddSeen(acc.seen, cells[1]),
           items |-> Append(acc.items, MakeItem(cells)) ]

\* the body of the for loop, lines 175-193, on the pair [seen, items]
AcceptRow(acc, cells) ==
    IF cells = << >> THEN acc
    ELSE IF cells[1] = << >> \/ cells[1] \in acc.seen THEN acc
    ELSE [ seen  |-> AddSeen(acc.seen, cells[1]),
           items |-> Append(acc.items, MakeItem(cells)) ]

RECURSIVE AcceptRows(_, _)
AcceptRows(acc, rows) ==
    IF rows = << >> THEN acc
    ELSE AcceptRows(AcceptRow(acc, Head(rows)), Tail(rows))

\* extract_new_products(page, table_sel, seen_ids): [seen, items], the mutated
\* seen_ids and the returned new_items
extract_new_products(pg, seen_ids) ==
    AcceptRows([seen |-> seen_ids, items |-> << >>], EvaluateRows(pg))

-----------------------------------------------------------------------------
(* scroll_and_collect_all: the locals of one call and its steps *)

InitLocals(tc) ==
    [ pc                 |-> "focus",
      target_count       |-> tc,
      products           |-> << >>,
      seen_ids           |-> {},
      attempts           |-> 0,
      no_progress_rounds |-> 0,
      last_count         |-> 0,
      new_rows           |-> << >>,
      scrolled           |-> None,
      scroll_calls       |-> 0,      \* scroll commands issued so far (not a local)
      pct                |-> None,
      stop_msg           |-> FALSE,
      returned           |-> None,
      exc                |-> None ]  \* the exception the call ended with

\* lines 214-219: focus click on the table, failures swallowed
FocusStep(L) == [L EXCEPT !.pc = "reset"]

\* lines 222-249: scroller.scrollTop = 0 when table and scroller resolve
ResetPage(pg) ==
    IF ~pg.table THEN pg
    ELSE IF getScroller(pg) = NoScroller THEN pg
    ELSE SetScrollTop(pg, getScroller(pg), 0)

ResetStep(L) == [L EXCEPT !.pc = "loop"]

\* line 251: while attempts < safety_ceiling
LoopCondition(attempts) == attempts < safety_ceiling

\* lines 251-252
LoopStep(L) ==
    IF LoopCondition(L.attempts)
        THEN [L EXCEPT !.attempts = @ + 1, !.pc = "extract"]
        ELSE [L EXCEPT !.pc = "return"]

ExtendAtFront(products, new_rows) == new_rows \o products

\* products.extend(new_rows)
Extend(products, new_rows) == products \o new_rows

\* lines 255-257
ExtractStep(L, pg) ==
    LET r == extract_new_products(pg, L.seen_ids)
    IN  [L EXCEPT !.seen_ids = r.seen,
                  !.new_rows = r.items,
                  !.products = IF r.items # << >> THEN Extend(@, r.items) ELSE @,
                  !.pc = "account"]

ProgressNeverReset(n, last_count, no_progress_rounds) ==
    IF n > last_count
        THEN [last_count |-> n, no_progress_rounds |-> no_progress_rounds]
        ELSE [last_count |-> last_count,
              no_progress_rounds |-> no_progress_rounds + 1]

ProgressStaleCount(n, last_count, no_progress_rounds) ==
    IF n > last_count
        THEN [last_count |-> last_count, no_progress_rounds |-> 0]
        ELSE [last_count |-> last_count,
              no_progress_rounds |-> no_progress_rounds + 1]

\* lines 260-264, on the pair [last_count, no_progress_rounds]
Progress(n, last_count, no_progress_rounds) ==
    IF n > last_count
        THEN [last_count |-> n, no_progress_rounds |-> 0]
        ELSE [last_count |-> last_count,
              no_progress_rounds |-> no_progress_rounds + 1]

AccountStep(L) ==
    LET p == Progress(Len(L.products), L.last_count, L.no_progress_rounds)
    IN  [L EXCEPT !.last_count = p.last_count,
                  !.no_progress_rounds = p.no_progress_rounds,
                  !.pc = "report"]

\* Python's a / b on numbers: the exact quotient as <<a, b>>, or the exception
ZeroDivisionError == <<"ZeroDivisionError">>

TrueDiv(a, b) == IF b = 0 THEN ZeroDivisionError ELSE <<a, b>>

PctUnguarded(n, target_count) == TrueDiv(n * 100, target_count)

\* line 267: (len(products) / target_count * 100) if target_count else 0
Pct(n, target_count) ==
    IF target_count # 0 THEN TrueDiv(n * 100, target_count) ELSE <<0, 1>>

\* lines 266-268; an exception leaves the function
ReportStep(L) ==
    IF L.attempts % progress_every = 0
        THEN LET p == Pct(Len(L.products), L.target_count)
             IN  IF p = ZeroDivisionError
                     THEN [L EXCEPT !.exc = Some(p), !.pc = "raised"]
                     ELSE [L EXCEPT !.pct = Some(p), !.pc = "scroll"]
        ELSE [L EXCEPT !.pc = "scroll"]

NextScrollTopBackward(prev, clientHeight, max) == Min(prev - clientHeight, max)

NextScrollTopSkipping(prev, clientHeight, max) == Min(prev + 2 * clientHeight, max)

\* line 301: Math.min(prev + scroller.clientHeight, max)
NextScrollTop(prev, clientHeight, max) == Min(prev + clientHeight, max)

\* the page.evaluate of lines 271-306: [res, page], the returned object and
\* the document after it
ScrollEval(pg) ==
    IF ~pg.table
        THEN [res |-> [ok |-> FALSE, reason |-> "no-table"], page |-> pg]
    ELSE IF getScroller(pg) = NoScroller
        THEN [res |-> [ok |-> FALSE, reason |-> "no-scroller"], page |-> pg]
    ELSE LET s    == getScroller(pg)
             prev == ElementAt(pg, s).top
             max  == ElementAt(pg, s).sh - ElementAt(pg, s).ch
             next == NextScrollTop(prev, ElementAt(pg, s).ch, max)
             pg2  == SetScrollTop(pg, s, next)
         IN  [res  |-> [ok |-> TRUE, prev |-> prev,
                        now |-> ElementAt(pg2, s).top, max |-> max],
              page |-> pg2]

ScrollStep(L, pg) ==
    [L EXCEPT !.scrolled = ScrollEval(pg).res,
              !.scroll_calls = @ + 1,
              !.pc = "check"]

\* lines 309-311
AtBottom(scrolled) ==
    IF scrolled # None /\ Get(scrolled, "ok") = Some(TRUE)
        THEN GetOr0(scrolled, "now") >= GetOr0(scrolled, "max")
        ELSE FALSE

NoMovementAssumed(scrolled) == TRUE

\* line 314
NoMovement(scrolled) ==
    \/ scrolled = None
    \/ Get(scrolled, "ok") # Some(TRUE)
    \/ Get(scrolled, "now") = Get(scrolled, "prev")

ShouldBreakAnywhere(scrolled, no_progress_rounds) ==
    /\ NoMovement(scrolled)
    /\ no_progress_rounds >= no_progress_limit

\* lines 314-315: the condition under which the loop breaks
ShouldBreak(scrolled, no_progress_rounds) ==
    /\ NoMovement(scrolled)
    /\ AtBottom(scrolled)
    /\ no_progress_rounds >= no_progress_limit

CheckStepAlwaysWaits(L) ==
    [L EXCEPT !.stop_msg = ShouldBreak(L.scrolled, L.no_progress_rounds),
              !.pc = "wait"]

\* lines 309-317
CheckStep(L) ==
    IF ShouldBreak(L.scrolled, L.no_progress_rounds)
        THEN [L EXCEPT !.stop_msg = TRUE, !.pc = "return"]
        ELSE [L EXCEPT !.pc = "wait"]

WaitStepRepeats(L) == [L EXCEPT !.pc = "extract"]

\* line 320
WaitStep(L) == [L EXCEPT !.pc = "loop"]

\* lines 322-323
ReturnStep(L) == [L EXCEPT !.returned = Some(L.products), !.pc = "done"]

RaiseSwallowed(L, e) ==
    [L EXCEPT !.exc = Some(e), !.returned = Some(<< >>), !.pc = "done"]

\* an awaited driver call of the loop (lines 255, 271, 320) raises: nothing in
\* lines 251-323 catches it, so the exception leaves the function
Raise(L, e) == [L EXCEPT !.exc = Some(e), !.pc = "raised"]

PlaywrightError == <<"playwright.Error">>

-----------------------------------------------------------------------------
(* main.  signed_in is the site's side of the session (what is_logged_in   *)
(* would find on the page), credentials says that EMAIL and PASSWORD are   *)
(* set, storage that storage_state.json exists; session is what main was   *)
(* last told by is_logged_in or try_login, output the content of           *)
(* products.json, exc the exception main ended with.                       *)

InitMain(storage, signed_in, credentials) ==
    [ pc          |-> "start",
      storage     |-> storage,
      signed_in   |-> signed_in,
      credentials |-> credentials,
      session     |-> None,
      output      |-> None,
      exc         |-> None ]

\* main at line 397, inside the call of scroll_and_collect_all, logged in
MainCalling ==
    [InitMain(FALSE, TRUE, TRUE) EXCEPT !.pc = "harvest", !.session = Some(TRUE)]

\* lines 23-34: what the page shows, or False when a query raised
is_logged_in(M, query_fails) == IF query_fails THEN FALSE ELSE M.signed_in

\* lines 335-353 up to the first is_logged_in: with or without stored state,
\* main goes on to try_login exactly when is_logged_in returned False
CheckLoginStep(M, query_fails) ==
    LET seen == is_logged_in(M, query_fails)
    IN  [M EXCEPT !.session = Some(seen),
                  !.pc = IF seen THEN "navigate" ELSE "login"]

\* lines 37-85: [result, main]; without credentials False at once, else the
\* form is submitted (the site accepts or not) and is_logged_in decides
try_login(M, accepted, query_fails) ==
    IF ~M.credentials
        THEN [result |-> FALSE, main |-> M]
        ELSE LET M2 == [M EXCEPT !.signed_in = @ \/ accepted]
             IN  [result |-> is_logged_in(M2, query_fails), main |-> M2]

\* lines 345-346 / 352-353: the result of try_login decides only whether the
\* storage state is saved; main goes on to the challenge steps either way
LoginStep(M, accepted, query_fails) ==
    LET t == try_login(M, accepted, query_fails)
    IN  [t.main EXCEPT !.session = Some(t.result),
                       !.storage = @ \/ t.result,
                       !.pc = "navigate"]

\* lines 385-394: the total of the "showing n of N" banner when there is one
\* and it is positive, else the default
TargetCount(banner) ==
    IF banner # None /\ banner[1] > 0 THEN banner[1] ELSE default_target_count

\* lines 355-397: the challenge steps, then the call
CallStep(M) == [M EXCEPT !.pc = "harvest"]

\* lines 400-412: the returned records are written to products.json
SaveStep(M, products) == [M EXCEPT !.output = Some(products), !.pc = "closed"]

\* lines 409-412: an exception out of the call passes the finally block
\* (context and browser are closed) and leaves main
PropagateStep(M, exc) == [M EXCEPT !.exc = exc, !.pc = "failed"]

\* the locals of a call not yet made
NotCalled == [InitLocals(default_target_count) EXCEPT !.pc = "uncalled"]

-----------------------------------------------------------------------------
(* History of run[1]: what it read from the page and what its scroll steps  *)
(* reported.  None of it is read by the program.                           *)

InitObs ==
    [ first_at         |-> << >>,  \* key -> <<round, row position>> of its first offer
      prev_read        |-> None,   \* rows returned by the read before the last
      last_read        |-> None,   \* rows returned by the last read
      seen_before      |-> {},     \* seen_ids when the last read was made
      prev_new_rows    |-> << >>,  \* new_items returned by the call before the last
      last_new_round   |-> 0,      \* last round whose read offered a new key
      last_move_round  |-> 0,      \* last round whose scroll step was not at rest at the bottom
      rows_ever        |-> FALSE,  \* some read returned a row
      only_no_scroller |-> TRUE,   \* every scroll step so far reported no-scroller
      bottom_ever      |-> FALSE,  \* some scroll step reported now >= max
      prev_scrolled    |-> None,   \* what the scroll step before the last reported
      changes          |-> 0 ]     \* changes the page made by itself

\* the non-empty first cells among rows
KeysOf(rows) ==
    { rows[i][1] : i \in { j \in DOMAIN rows : rows[j] # << >> /\ rows[j][1] # << >> } }

FirstPos(rows, k) ==
    CHOOSE i \in DOMAIN rows :
        /\ rows[i] # << >> /\ rows[i][1] = k
        /\ \A j \in 1..(i - 1) : rows[j] = << >> \/ rows[j][1] # k

ObserveRead(o, rows, seen_ids, new_rows, round) ==
    LET old   == DOMAIN o.first_at
        fresh == KeysOf(rows) \ old
    IN  [o EXCEPT
          !.first_at = [k \in old \cup fresh |->
                          IF k \in old THEN o.first_at[k]
                          ELSE <<round, FirstPos(rows, k)>>],
          !.prev_read = o.last_read,
          !.last_read = Some(rows),
          !.seen_before = seen_ids,
          !.prev_new_rows = new_rows,
          !.last_new_round = IF fresh # {} THEN round ELSE @,
          !.rows_ever = @ \/ rows # << >>]

AtRestAtBottom(res) == res.ok /\ res.now = res.prev /\ res.now >= res.max

ObserveScroll(o, res, before, round) ==
    [o EXCEPT
      !.last_move_round = IF AtRestAtBottom(res) THEN @ ELSE round,
      !.only_no_scroller = @ /\ res = [ok |-> FALSE, reason |-> "no-scroller"],
      !.bottom_ever = @ \/ (res.ok /\ res.now >= res.max),
      !.prev_scrolled = before]

-----------------------------------------------------------------------------
(* Actions of the program: each step is taken by every run at that step   *)

StepAll(p, after) ==
    /\ run' = [i \in DOMAIN run |-> IF run[i].pc = p THEN after[i] ELSE run[i]]
    /\ UNCHANGED main

Focus ==
    /\ run[1].pc = "focus"
    /\ StepAll("focus", [i \in DOMAIN run |-> FocusStep(run[i])])
    /\ UNCHANGED <<page, obs>>

Reset ==
    /\ run[1].pc = "reset"
    /\ StepAll("reset", [i \in DOMAIN run |-> ResetStep(run[i])])
    /\ page' = ResetPage(page)
    /\ UNCHANGED obs

Loop ==
    /\ run[1].pc = "loop"
    /\ StepAll("loop", [i \in DOMAIN run |-> LoopStep(run[i])])
    /\ UNCHANGED <<page, obs>>

Extract ==
    /\ run[1].pc = "extract"
    /\ StepAll("extract", [i \in DOMAIN run |-> ExtractStep(run[i], page)])
    /\ obs' = ObserveRead(obs, EvaluateRows(page), run[1].seen_ids,
                           run[1].new_rows, run[1].attempts)
    /\ UNCHANGED page

Account ==
    /\ run[1].pc = "account"
    /\ StepAll("account", [i \in DOMAIN run |-> AccountStep(run[i])])
    /\ UNCHANGED <<page, obs>>

Report ==
    /\ run[1].pc = "report"
    /\ StepAll("report", [i \in DOMAIN run |-> ReportStep(run[i])])
    /\ UNCHANGED <<page, obs>>

Scroll ==
    /\ run[1].pc = "scroll"
    /\ StepAll("scroll", [i \in DOMAIN run |-> ScrollStep(run[i], page)])
    /\ page' = ScrollEval(page).page
    /\ obs' = ObserveScroll(obs, ScrollEval(page).res, run[1].scrolled, run[1].attempts)

Check ==
    /\ run[1].pc = "check"
    /\ StepAll("check", [i \in DOMAIN run |-> CheckStep(run[i])])
    /\ UNCHANGED <<page, obs>>

Wait ==
    /\ run[1].pc = "wait"
    /\ StepAll("wait", [i \in DOMAIN run |-> WaitStep(run[i])])
    /\ UNCHANGED <<page, obs>>

Return ==
    /\ run[1].pc = "return"
    /\ StepAll("return", [i \in DOMAIN run |-> ReturnStep(run[i])])
    /\ UNCHANGED <<page, obs>>

\* the loop head, explored for the first `cap` rounds only
LoopUpTo(cap) == run[1].attempts < cap /\ Loop

\* the driver call of the step raises instead of returning
ExtractFails ==
    /\ run[1].pc = "extract"
    /\ StepAll("extract", [i \in DOMAIN run |-> Raise(run[i], PlaywrightError)])
    /\ UNCHANGED <<page, obs>>

ScrollFails ==
    /\ run[1].pc = "scroll"
    /\ StepAll("scroll", [i \in DOMAIN run |-> Raise(run[i], PlaywrightError)])
    /\ UNCHANGED <<page, obs>>

WaitFails ==
    /\ run[1].pc = "wait"
    /\ StepAll("wait", [i \in DOMAIN run |-> Raise(run[i], PlaywrightError)])
    /\ UNCHANGED <<page, obs>>

-----------------------------------------------------------------------------
(* Actions of main *)

CheckLogin ==
    /\ main.pc = "start"
    /\ \E query_fails \in BOOLEAN : main' = CheckLoginStep(main, query_fails)
    /\ UNCHANGED <<run, page, obs>>

Login ==
    /\ main.pc = "login"
    /\ \E accepted, query_fails \in BOOLEAN :
          main' = LoginStep(main, accepted, query_fails)
    /\ UNCHANGED <<run, page, obs>>

Call ==
    /\ main.pc = "navigate"
    /\ \E banner \in {None, Some(0), Some(12)} :
          run' = [i \in {1} |-> InitLocals(TargetCount(banner))]
    /\ main' = CallStep(main)
    /\ UNCHANGED <<page, obs>>

Save ==
    /\ main.pc = "harvest"
    /\ run[1].pc = "done"
    /\ main' = SaveStep(main, run[1].returned[1])
    /\ UNCHANGED <<run, page, obs>>

Propagate ==
    /\ main.pc = "harvest"
    /\ run[1].pc = "raised"
    /\ main' = PropagateStep(main, run[1].exc)
    /\ UNCHANGED <<run, page, obs>>

-----------------------------------------------------------------------------
(* Actions of the page.  The program sees the page only in its evaluate    *)
(* calls, so a change is taken just before the read or the scroll.         *)

PageMayChange(at, budget) ==
    /\ run[1].pc \in at
    /\ obs.changes < budget
    /\ page.data = << >> /\ ~page.feed

Changed == obs' = [obs EXCEPT !.changes = @ + 1] /\ UNCHANGED <<run, main>>

\* the table mounts a row at the top or the bottom of its body, up to n rows,
\* or unmounts its first or its last row (seen by the program at its next read)
Rerendered(rows, pool, n) ==
    { Append(rows, r) : r \in IF Len(rows) < n THEN pool ELSE {} }
    \cup { <<r>> \o rows : r \in IF Len(rows) < n THEN pool ELSE {} }
    \cup IF rows = << >> THEN {} ELSE { Tail(rows), SubSeq(rows, 1, Len(rows) - 1) }

PageRender(pool, n, budget) ==
    /\ PageMayChange({"extract"}, budget)
    /\ \E rows \in Rerendered(page.rows, pool, n) :
          page' = [page EXCEPT !.rows = rows]
    /\ Changed

\* an element's content grows or shrinks; the browser keeps scrollTop in range
Resized(e, h) == [e EXCEPT !.sh = h, !.top = Min(e.top, Max(h - e.ch, 0))]

PageResize(budget) ==
    /\ PageMayChange({"scroll"}, budget)
    /\ \E h \in 0..MaxScrollHeight :
          \/ \E i \in DOMAIN page.anc :
                /\ page.anc[i].oy \in {"auto", "scroll"} /\ h # page.anc[i].sh
                /\ page' = [page EXCEPT !.anc[i] = Resized(@, h)]
          \/ \E j \in DOMAIN page.desc :
                /\ page.desc[j].oy \in {"auto", "scroll"} /\ h # page.desc[j].sh
                /\ page' = [page EXCEPT !.desc[j] = Resized(@, h)]
    /\ Changed

\* the table is attached to or detached from the document
PageToggleTable(budget) ==
    /\ PageMayChange({"extract", "scroll"}, budget)
    /\ page' = [page EXCEPT !.table = ~@]
    /\ Changed

-----------------------------------------------------------------------------
(* Pages *)

Txt(s) == [i \in 1..Len(s) |-> s[i]]

TableEl == [tag |-> "table", oy |-> "visible", sh |-> 1, ch |-> 1, top |-> 0]

Div(oy, sh, ch, top) == [tag |-> "div", oy |-> oy, sh |-> sh, ch |-> ch, top |-> top]

Span(oy, sh, ch, top) == [tag |-> "span", oy |-> oy, sh |-> sh, ch |-> ch, top |-> top]

El(tag, oy, sh, ch, top) == [tag |-> tag, oy |-> oy, sh |-> sh, ch |-> ch, top |-> top]

Row(shown, tds) == [shown |-> shown, tds |-> tds]

\* rows a table may render: no cells, a blank key, key a with two payloads
\* (the second padded with white space), key b, a hidden row of key c
RowPool ==
    { Row(TRUE, << >>),
      Row(TRUE, << <<" ">> >>),
      Row(TRUE, << <<"a">>, <<"x">> >>),
      Row(TRUE, << <<" ", "a">>, <<"y", " ">> >>),
      Row(TRUE, << <<"b">> >>),
      Row(FALSE, << <<"c">> >>) }

StaticPage(table, rows, anc, desc) ==
    [table |-> table, rows |-> rows, anc |-> anc, desc |-> desc,
     data |-> << >>, rowH |-> 1, win |-> 1, feed |-> FALSE]

InitPages ==
    { StaticPage(TRUE, rows, a, << >>) :
        rows \in SeqsUpTo(RowPool, 1),
        a \in { <<TableEl>>, <<TableEl, Div("auto", 3, 1, 1)>> } }

Init ==
    /\ run = [i \in {1} |-> InitLocals(default_target_count)]
    /\ page \in InitPages
    /\ obs = InitObs
    /\ main = MainCalling

Next ==
    \/ Focus \/ Reset \/ LoopUpTo(MaxRounds) \/ Extract \/ Account \/ Report
    \/ Scroll \/ Check \/ Wait
    \/ PageRender(RowPool, MaxRows, MaxPageChanges)

Spec == Init /\ [][Next]_vars

\* The same pages over fewer rounds and changes, for the effect of single
\* offers on the ledger
NextAccept ==
    \/ Focus \/ Reset \/ LoopUpTo(MaxAcceptRounds) \/ Extract \/ Account
    \/ Report \/ Scroll \/ Check \/ Wait
    \/ PageRender(RowPool, MaxRows, MaxAcceptChanges)

SpecAccept == Init /\ [][NextAccept]_vars

\* Pages for the termination rules: at most one row, scroll containers of
\* several sizes, above or inside the table, the table attached or not
TermPool == { Row(TRUE, << <<"b">> >>) }

TermLayouts ==
    { [anc |-> <<TableEl>>, desc |-> << >>],
      [anc |-> <<TableEl>>,
       desc |-> <<Span("auto", 4, 1, 0), Div("scroll", 3, 1, 1)>>] }
    \cup { [anc |-> <<TableEl, Div("auto", MaxScrollHeight, ch, ch - 1)>>,
            desc |-> << >>] : ch \in {1, 2} }

TermPages ==
    { StaticPage(t, rows, l.anc, l.desc) :
        t \in BOOLEAN, rows \in SeqsUpTo(TermPool, 1), l \in TermLayouts }

InitTerm ==
    /\ run = [i \in {1} |-> InitLocals(default_target_count)]
    /\ page \in TermPages
    /\ obs = InitObs
    /\ main = MainCalling

NextTerm ==
    \/ Focus \/ Reset \/ LoopUpTo(MaxTermRounds) \/ Extract \/ Account \/ Report
    \/ Scroll \/ Check \/ Wait \/ Return
    \/ PageRender(TermPool, 1, MaxTermChanges)
    \/ PageResize(MaxTermChanges)
    \/ PageToggleTable(MaxTermChanges)

SpecTerm == InitTerm /\ [][NextTerm]_vars

\* Pages that never report the bottom: a table without rows and without any
\* scroll container, and an endless feed of one row
CeilingPages ==
    { StaticPage(TRUE, << >>, <<TableEl>>, << >>),
      [ StaticPage(TRUE, <<Row(TRUE, << <<"b">> >>)>>,
                   <<TableEl, Div("auto", 4, 1, 0)>>, << >>)
          EXCEPT !.feed = TRUE ] }

InitCeiling ==
    /\ run = [i \in {1} |-> InitLocals(default_target_count)]
    /\ page \in CeilingPages
    /\ obs = InitObs
    /\ main = MainCalling

NextCeiling ==
    \/ Focus \/ Reset \/ Loop \/ Extract \/ Account \/ Report
    \/ Scroll \/ Check \/ Wait \/ Return

SpecCeiling == InitCeiling /\ [][NextCeiling]_vars

\* The virtualized table of the 12-row scenario: rows of height rowH with
\* unique keys, 4 of them rendered, in a scroller of 4 rows' height whose
\* content is 16 rows high, so that the third scroll reaches the bottom.  The
\* scroller is the table's parent or a div inside it, and may start scrolled.
Letters == <<"a", "b", "c", "d", "e", "f", "g", "h", "i", "j", "k", "l">>

ScenarioData == [i \in 1..12 |-> Row(TRUE, << <<Letters[i]>>, <<"p", Letters[i]>> >>)]

ScenarioPage(rowH, inside, top) ==
    LET scroller == Div("auto", 16 * rowH, 4 * rowH, top)
    IN  [ table |-> TRUE,
          rows  |-> Window(ScenarioData, rowH, 4, top),
          anc   |-> IF inside THEN <<TableEl>> ELSE <<TableEl, scroller>>,
          desc  |-> IF inside THEN <<scroller>> ELSE << >>,
          data  |-> ScenarioData, rowH |-> rowH, win |-> 4, feed |-> FALSE ]

ScenarioPages ==
    { ScenarioPage(rowH, inside, top) :
        rowH \in {1, 2, 3}, inside \in BOOLEAN, top \in {0, 4} }

InitScenario ==
    /\ run = [i \in {1} |-> InitLocals(12)]
    /\ page \in ScenarioPages
    /\ obs = InitObs
    /\ main = MainCalling

NextScenario ==
    \/ Focus \/ Reset \/ Loop \/ Extract \/ Account \/ Report
    \/ Scroll \/ Check \/ Wait \/ Return

SpecScenario == InitScenario /\ [][NextScenario]_vars

\* Two calls that differ in target_count only, taking every step together
\* against the same page: the 12-row scenario, a table of one row in a
\* scroller 27 viewports high, and a table without rows or scroll container
HintValues == {0, 12, default_target_count}

HintPages ==
    { ScenarioPage(1, FALSE, 0),
      StaticPage(TRUE, <<Row(TRUE, << <<"b">> >>)>>,
                 <<TableEl, Div("auto", 27, 1, 0)>>, << >>),
      StaticPage(TRUE, << >>, <<TableEl>>, << >>) }

InitHint ==
    /\ \E a, b \in HintValues :
          /\ a # b
          /\ run = [i \in {1, 2} |-> InitLocals(IF i = 1 THEN a ELSE b)]
    /\ page \in HintPages
    /\ obs = InitObs
    /\ main = MainCalling

NextHint ==
    \/ Focus \/ Reset \/ LoopUpTo(MaxHintRounds) \/ Extract \/ Account \/ Report
    \/ Scroll \/ Check \/ Wait \/ Return

SpecHint == InitHint /\ [][NextHint]_vars

\* main from its start, against the 12-row scenario or a table of one row in
\* a small scroller; every driver call of the loop may raise
MainPages ==
    { ScenarioPage(1, FALSE, 0),
      StaticPage(TRUE, <<Row(TRUE, << <<"b">> >>)>>,
                 <<TableEl, Div("auto", 3, 1, 1)>>, << >>) }

InitWhole ==
    /\ run = [i \in {1} |-> NotCalled]
    /\ page \in MainPages
    /\ obs = InitObs
    /\ \E storage, signed_in, credentials \in BOOLEAN :
          main = InitMain(storage, signed_in, credentials)

NextWhole ==
    \/ CheckLogin \/ Login \/ Call \/ Save \/ Propagate
    \/ Focus \/ Reset \/ Loop \/ Extract \/ Account \/ Report
    \/ Scroll \/ Check \/ Wait \/ Return
    \/ ExtractFails \/ ScrollFails \/ WaitFails

SpecWhole == InitWhole /\ [][NextWhole]_vars

\* Pages for the resolution of the scroller: ancestor chains with the table
\* itself scrollable, a scrollable parent, a scrollable grandparent above a
\* parent that is not, two scrollable ancestors, a scrollable body, a parent
\* that hides its overflow, a parent one pixel short of the margin; subtrees
\* with a scrollable span, with a span and a div, with a div short of the
\* margin before a scrollable one
ResolveChains ==
    { <<TableEl>>,
      <<El("table", "auto", 3, 1, 1)>>,
      <<TableEl, Div("auto", 3, 1, 1)>>,
      <<TableEl, Div("visible", 3, 1, 0), El("section", "scroll", 4, 1, 1)>>,
      <<TableEl, Div("auto", 3, 1, 1), El("section", "auto", 5, 1, 2)>>,
      <<TableEl, El("body", "auto", 5, 1, 1), El("html", "scroll", 5, 1, 1)>>,
      <<TableEl, Div("hidden", 5, 1, 0)>>,
      <<TableEl, Div("auto", 2, 1, 0)>> }

ResolveSubtrees ==
    { << >>,
      <<Span("auto", 4, 1, 1)>>,
      <<Span("auto", 4, 1, 1), Div("scroll", 3, 1, 1)>>,
      <<Div("auto", 2, 1, 0), Div("auto", 3, 1, 1)>> }

ResolvePages ==
    { StaticPage(TRUE, <<Row(TRUE, << <<"b">> >>)>>, a, d) :
        a \in ResolveChains, d \in ResolveSubtrees }

InitResolve ==
    /\ run = [i \in {1} |-> InitLocals(default_target_count)]
    /\ page \in ResolvePages
    /\ obs = InitObs
    /\ main = MainCalling

NextResolve ==
    \/ Focus \/ Reset \/ LoopUpTo(MaxResolveRounds) \/ Extract \/ Account
    \/ Report \/ Scroll \/ Check \/ Wait

SpecResolve == InitResolve /\ [][NextResolve]_vars

\* The loop alone under fair scheduling: every awaited call returns and
\* asyncio resumes the coroutine, so a step that can be taken is taken.  The
\* pages are the two that never report the bottom, the 12-row scenario and a
\* table of one row in a small scroller.
LivePages == CeilingPages \cup MainPages

InitLive ==
    /\ run = [i \in {1} |-> InitLocals(default_target_count)]
    /\ page \in LivePages
    /\ obs = InitObs
    /\ main = MainCalling

NextLive ==
    \/ Focus \/ Reset \/ Loop \/ Extract \/ Account \/ Report
    \/ Scroll \/ Check \/ Wait \/ Return

SpecLive == InitLive /\ [][NextLive]_vars /\ WF_vars(NextLive)

-----------------------------------------------------------------------------
(* Properties.  h is the run under check. *)

h == run[1]

Ids(items) == { items[i].id : i \in DOMAIN items }

IsPrefix(s, t) == Len(s) <= Len(t) /\ SubSeq(t, 1, Len(s)) = s

\* <<round, position>> pairs in encounter order
Earlier(a, b) == a[1] < b[1] \/ (a[1] = b[1] /\ a[2] < b[2])

JustExtracted == h.pc = "account"

\* C1 (at-most-once acceptance): after any sequence of rounds no key occurs
\* twice in products, and the number of records in products is the number of
\* distinct non-empty keys the reads have offered so far.
AtMostOnceAcceptance ==
    /\ \A i, j \in DOMAIN h.products :
          h.products[i].id = h.products[j].id => i = j
    /\ Len(h.products) = Cardinality(DOMAIN obs.first_at)
    /\ Ids(h.products) = DOMAIN obs.first_at

\* a key offered by two consecutive reads, with two records accepted
AtMostOnceWitness ==
    /\ JustExtracted
    /\ obs.prev_read # None
    /\ KeysOf(obs.prev_read[1]) \cap KeysOf(obs.last_read[1]) # {}
    /\ Len(h.products) = 2

\* C2 (order stability): products lists the keys in the order of their first
\* offer (by round, then by row position in the read), every record is the row
\* of that first offer, and no step moves, changes or removes a record already
\* in products.
OrderStability ==
    /\ [](\A i, j \in DOMAIN h.products :
            i < j => /\ h.products[i].id \in DOMAIN obs.first_at
                     /\ h.products[j].id \in DOMAIN obs.first_at
                     /\ Earlier(obs.first_at[h.products[i].id],
                                obs.first_at[h.products[j].id]))
    /\ [][IsPrefix(h.products, h.products')]_vars

\* a key accepted in an earlier round is offered again, at another row
\* position and with other cells, while products holds a second record
OrderStabilityWitness ==
    /\ JustExtracted
    /\ Len(h.products) >= 2
    /\ \E i \in DOMAIN obs.last_read[1] :
          LET cells == obs.last_read[1][i]
          IN  /\ cells # << >>
              /\ cells[1] \in DOMAIN obs.first_at
              /\ obs.first_at[cells[1]][1] < h.attempts
              /\ obs.first_at[cells[1]][2] # i
              /\ \E n \in DOMAIN h.products :
                    h.products[n].id = cells[1] /\ h.products[n].cells # cells

\* C10 as stated (idempotent extraction): a call of extract_new_products that
\* reads the same rows as the call before it returns the same candidates as
\* that call, and leaves seen_ids as it found it.
ExtractionRepeatsCandidates ==
    (JustExtracted /\ obs.prev_read # None /\ obs.prev_read = obs.last_read)
        => /\ h.new_rows = obs.prev_new_rows
           /\ h.seen_ids = obs.seen_before

\* C10 as amended: the read leaves the page as it is; the call returns, once
\* per key, the rows whose non-empty key was not in seen_ids and adds those
\* keys to seen_ids; so a call that reads the same rows as the call before it
\* returns nothing and leaves seen_ids unchanged.
ExtractionDeduplicates ==
    /\ [](JustExtracted =>
            /\ Ids(h.new_rows) = KeysOf(obs.last_read[1]) \ obs.seen_before
            /\ Len(h.new_rows) = Cardinality(Ids(h.new_rows))
            /\ h.seen_ids = obs.seen_before \cup KeysOf(obs.last_read[1])
            /\ (obs.prev_read = obs.last_read =>
                   h.new_rows = << >> /\ h.seen_ids = obs.seen_before))
    /\ [][h.pc = "extract" /\ h'.pc = "account" => page' = page]_vars

\* the second of two calls that read the same rows, the first of which
\* returned candidates
ExtractionDeduplicatesWitness ==
    /\ JustExtracted
    /\ obs.prev_read # None
    /\ obs.prev_read = obs.last_read
    /\ obs.prev_new_rows # << >>

-----------------------------------------------------------------------------
(* Termination *)

\* the scroll step reported the bottom: now >= max, or no scroller at all
ReportsBottom(scrolled) ==
    \/ Get(scrolled, "ok") = Some(TRUE) /\ scrolled.now >= scrolled.max
    \/ scrolled = [ok |-> FALSE, reason |-> "no-scroller"]

Continues == h.pc = "wait"

\* C3 as stated (exhaustion rule): a round whose scroll step reports the
\* bottom or no-scroller with no_progress_rounds >= 5 ends the loop as
\* Exhausted, and the loop ends as Exhausted only in such a round.
ExhaustionRule ==
    /\ (Continues /\ ReportsBottom(h.scrolled))
          => h.no_progress_rounds < no_progress_limit
    /\ h.stop_msg
          => ReportsBottom(h.scrolled) /\ h.no_progress_rounds >= no_progress_limit

\* C4 as stated: with no row ever read and every scroll step reporting
\* no-scroller, the loop is over within 6 rounds, as Exhausted, with 0 records.
EmptyTableExhaustedInSix ==
    (~obs.rows_ever /\ obs.only_no_scroller)
        => /\ h.attempts <= 6
           /\ (h.pc = "done" => h.stop_msg /\ h.returned = Some(<< >>))

ScrollBound ==
    (h.scrolled # None /\ h.scrolled.ok)
        => /\ 0 <= h.scrolled.now
           /\ h.scrolled.now <= h.scrolled.max
           /\ h.scrolled.now >= h.scrolled.prev

\* two scroll steps in a row resolved a scroller, and the page shrank in
\* between so that the position reported first lies beyond the second max
ScrollBoundWitness ==
    /\ h.scrolled # None /\ h.scrolled.ok
    /\ obs.prev_scrolled # None /\ obs.prev_scrolled.ok
    /\ obs.prev_scrolled.now > h.scrolled.max
    /\ h.scrolled.now > 0

-----------------------------------------------------------------------------
(* Safety ceiling *)

Returned == h.pc = "done"

\* C6 as stated (safety bound): what the caller gets from a loop that ran into
\* the ceiling differs from what it gets from a loop that ended as exhausted
\* with the same records.
CeilingDistinguishable ==
    (Returned /\ ~h.stop_msg)
        => h.returned # ReturnStep([h EXCEPT !.stop_msg = TRUE, !.pc = "return"]).returned

\* C6 as amended: against a page none of whose scroll steps reports the
\* bottom the loop makes exactly 20000 rounds, never more, and then returns the
\* records accepted so far and nothing else.
CeilingAfterAllRounds ==
    /\ h.attempts <= safety_ceiling
    /\ (h.pc \in {"return", "done"} /\ ~obs.bottom_ever)
          => h.attempts = safety_ceiling /\ ~h.stop_msg
    /\ Returned => h.returned = Some(h.products)

\* the endless feed, given up at the ceiling with its record
CeilingWitness ==
    /\ Returned
    /\ ~obs.bottom_ever
    /\ h.attempts = safety_ceiling
    /\ Len(h.products) = 1
    /\ ~obs.only_no_scroller

-----------------------------------------------------------------------------
(* The 12-row scenario and the target count hint *)

\* C7: against the virtualized table of 12 rows, 4 visible, whose third
\* scroll reaches the bottom, the loop is over after at most 8 rounds, ends as
\* exhausted, and returns exactly 12 records with pairwise distinct keys, the
\* rows of the table in their order.
ScenarioHarvest ==
    /\ h.attempts <= 8
    /\ Returned =>
          /\ h.stop_msg
          /\ h.returned # None
          /\ Len(h.returned[1]) = 12
          /\ Cardinality(Ids(h.returned[1])) = 12
          /\ \A i \in 1..12 : h.returned[1][i].id = <<Letters[i]>>

\* the scenario run from a scroller that started scrolled, over in round 8,
\* the third scroll having reached the bottom
ScenarioWitness ==
    /\ Returned
    /\ h.stop_msg
    /\ h.attempts = 8
    /\ obs.last_new_round = 3
    /\ obs.last_move_round = 3
    /\ Len(h.products) = 12

\* what a call does apart from printing the percentage
Conduct(L) == [L EXCEPT !.target_count = 0, !.pct = None]

\* C9: two calls that differ in target_count only agree, step by step, on the
\* round they are in, the scroll commands issued, the records accepted, the
\* way the loop ended and the records returned.
HintIrrelevant ==
    2 \in DOMAIN run => Conduct(run[2]) = Conduct(run[1])

\* both calls have returned, exhausted, after printing different percentages
HintWitness ==
    /\ 2 \in DOMAIN run
    /\ run[1].pc = "done" /\ run[2].pc = "done"
    /\ run[1].stop_msg
    /\ run[1].target_count = 0
    /\ run[1].pct # None /\ run[2].pct # None
    /\ run[1].pct # run[2].pct

-----------------------------------------------------------------------------
(* Driver failures and the session *)

\* C11 as stated: when a driver call of the loop has raised, the caller has
\* the failure and with it every record accepted before.
FailureKeepsRecords ==
    (main.pc = "failed" /\ h.products # << >>)
        => /\ main.exc # None
           /\ h.returned = Some(h.products) \/ main.output = Some(h.products)

\* C11 as amended: a driver call that raises ends the loop at once and the
\* exception leaves scroll_and_collect_all and main; the call returns nothing
\* and the records it had accepted go with its locals; products.json is
\* written only from a call that returned, with what it returned.
FailurePropagates ==
    /\ [](h.pc = "raised" => h.exc # None /\ h.returned = None)
    /\ [](main.pc = "failed" =>
             h.pc = "raised" /\ main.exc = h.exc /\ main.output = None)
    /\ [](main.output # None =>
             h.pc = "done" /\ h.exc = None /\ main.output = h.returned)
    /\ [][h.pc = "raised" => h' = h]_vars

\* a driver call raised in a round after all 12 records had been accepted
FailurePropagatesWitness ==
    /\ main.pc = "failed"
    /\ Len(h.products) = 12
    /\ h.attempts > 3
    /\ main.output = None

\* C12 as stated: scroll_and_collect_all is called only after is_logged_in or
\* try_login returned True.
SessionPrecondition ==
    h.pc # "uncalled" => main.session = Some(TRUE)

-----------------------------------------------------------------------------
(* Rounds *)

NoTable == [ok |-> FALSE, reason |-> "no-table"]

\* C13 (transient lookup failure): while the table selector matches nothing,
\* the read returns no candidates and leaves products and seen_ids as they
\* are, the scroll step reports no-table and leaves the page as it is, and the
\* round ends at the settle wait, not in a break; whatever a read offers once
\* the table is back is in products.
LookupFailureSkipsRound ==
    /\ []((JustExtracted /\ ~page.table) =>
             obs.last_read = Some(<< >>) /\ h.new_rows = << >>)
    /\ []((h.pc = "check" /\ ~page.table) => h.scrolled = NoTable)
    /\ [](JustExtracted => KeysOf(obs.last_read[1]) \subseteq Ids(h.products))
    /\ [][(h.pc = "extract" /\ h'.pc = "account" /\ ~page.table) =>
             h'.products = h.products /\ h'.seen_ids = h.seen_ids]_vars
    /\ [][(h.pc = "scroll" /\ h'.pc = "check" /\ ~page.table) => page' = page]_vars
    /\ [][(h.pc = "check" /\ h'.pc # "check" /\ h.scrolled = NoTable) =>
             h'.pc = "wait" /\ ~h'.stop_msg]_vars

\* round 1 found no table, at its read and at its scroll; the table, attached
\* before the read of round 2, gives its row to that read
LookupFailureWitness ==
    /\ JustExtracted
    /\ h.attempts = 2
    /\ obs.changes = 1
    /\ obs.prev_read = Some(<< >>)
    /\ h.scrolled = NoTable
    /\ h.new_rows # << >>
    /\ Len(h.products) = 1

\* steps left in a round, by position; 0 where the call takes no step
StepsLeft ==
    [ focus |-> 10, reset |-> 9, extract |-> 8, account |-> 7, report |-> 6,
      scroll |-> 5, check |-> 4, wait |-> 3, loop |-> 2, return |-> 1,
      done |-> 0, raised |-> 0, uncalled |-> 0 ]

\* a bound on the steps the call has left
Rank(L) == (safety_ceiling - L.attempts) * 8 + StepsLeft[L.pc]

\* C14: the loop always comes to its end, and only by exhaustion or by the
\* round counter reaching 20000: until the call has returned it is at a
\* position that has a step, and every step lowers Rank, which is never
\* negative (so under fair scheduling the call returns); no call raises; the
\* loop is left only with the exhaustion message or with attempts = 20000;
\* attempts grows by exactly 1 per round, at the loop head and nowhere else,
\* and never exceeds 20000.
LoopTerminates ==
    /\ [](Rank(h) >= 0)
    /\ [](h.pc # "done" => StepsLeft[h.pc] > 0)
    /\ [][Rank(h') < Rank(h)]_vars
    /\ [](h.attempts <= safety_ceiling /\ h.pc # "raised")
    /\ [](h.pc \in {"return", "done"} =>
             h.stop_msg \/ h.attempts = safety_ceiling)
    /\ [][IF h.pc = "loop" /\ h'.pc = "extract"
             THEN h'.attempts = h.attempts + 1
             ELSE h'.attempts = h.attempts]_vars

\* the table without rows or scroll container, given up after 20000 rounds
LoopTerminatesWitness ==
    /\ h.pc = "done"
    /\ h.attempts = safety_ceiling
    /\ ~h.stop_msg
    /\ obs.only_no_scroller
    /\ h.scroll_calls = safety_ceiling

\* what a read returns for one row
CellsOf(r) == [j \in DOMAIN r.tds |-> trim(r.tds[j])]

Rejected(cells, seen_ids) ==
    cells = << >> \/ cells[1] = << >> \/ cells[1] \in seen_ids

\* seen set and accepted sequence after the offer of one row, against before
AcceptFrame(cells, seen_ids, products, seen_after, products_after) ==
    IF Rejected(cells, seen_ids)
        THEN seen_after = seen_ids /\ products_after = products
        ELSE /\ seen_after = seen_ids \cup {cells[1]}
             /\ Len(products_after) = Len(products) + 1
             /\ IsPrefix(products, products_after)
             /\ products_after[Len(products_after)].id = cells[1]
             /\ products_after[Len(products_after)].cells = cells

\* C15 (accept frame condition): offered a row without a first cell, with an
\* empty one or with one already in the seen set, the ledger keeps its seen
\* set and its accepted sequence; offered a new non-empty key it adds that key
\* to the seen set and appends one record, the records before it unchanged.
\* This holds of the loop body applied to any row against the ledger of any
\* state, and of every read of a single row the loop makes.
AcceptFrameCondition ==
    /\ [](\A r \in RowPool :
            LET out == AcceptRow([seen |-> h.seen_ids, items |-> h.products],
                                 CellsOf(r))
            IN  AcceptFrame(CellsOf(r), h.seen_ids, h.products, out.seen, out.items))
    /\ [][(h.pc = "extract" /\ h'.pc = "account" /\ Len(EvaluateRows(page)) = 1)
            => AcceptFrame(EvaluateRows(page)[1], h.seen_ids, h.products,
                           h'.seen_ids, h'.products)]_vars

\* a read of one row whose key was accepted before, with other cells
AcceptFrameWitness ==
    /\ JustExtracted
    /\ Len(obs.last_read[1]) = 1
    /\ obs.last_read[1][1] # << >>
    /\ obs.last_read[1][1][1] \in obs.seen_before
    /\ h.products # << >>
    /\ \A n \in DOMAIN h.products : h.products[n].cells # obs.last_read[1][1]

\* the accounting of the current round is done
Accounted ==
    \/ h.pc \in {"report", "scroll", "check", "wait", "return", "done"}
    \/ h.pc = "loop" /\ h.attempts >= 1

\* C16 (progress accounting): once a round has done its accounting,
\* last_count is the number of records in products and no_progress_rounds is
\* the number of rounds since the last one that accepted a record, this round
\* included; it is 0 exactly when this round accepted a record; and no step
\* but the accounting changes either, whatever the scroll step reports.
ProgressAccounting ==
    /\ [](Accounted =>
            /\ h.last_count = Len(h.products)
            /\ h.no_progress_rounds = h.attempts - obs.last_new_round
            /\ (h.no_progress_rounds = 0 <=> h.new_rows # << >>))
    /\ [][h.pc # "account" =>
            /\ h'.no_progress_rounds = h.no_progress_rounds
            /\ h'.last_count = h.last_count]_vars

\* round 5 ends two rounds after the round that accepted the record, which
\* itself came after two rounds without one; the scroll steps have moved
ProgressAccountingWitness ==
    /\ h.pc = "wait"
    /\ h.attempts = 5
    /\ obs.last_new_round = 3
    /\ h.no_progress_rounds = 2
    /\ h.last_count = 1
    /\ h.scrolled # None /\ h.scrolled.ok /\ h.scrolled.now > h.scrolled.prev

\* the order of the statements of lines 214-323, as <<from, to>>
RoundOrder ==
    { <<"focus", "reset">>, <<"reset", "loop">>,
      <<"loop", "extract">>, <<"extract", "account">>, <<"account", "report">>,
      <<"report", "scroll">>, <<"scroll", "check">>, <<"check", "wait">>,
      <<"wait", "loop">>,
      <<"check", "return">>, <<"loop", "return">>, <<"return", "done">> }

\* C17 (round ordering): the call is at one statement at a time and a round
\* goes read, ledger update, accounting, scroll, check, wait; when a round's
\* accounting starts the records the read returned are in products; the read
\* of round n + 1 starts with n scroll commands done and the check of round n
\* with n; and the round that ends the loop as exhausted goes from its check
\* to the return, not to the wait.
RoundOrdering ==
    /\ [][h'.pc # h.pc => <<h.pc, h'.pc>> \in RoundOrder]_vars
    /\ [](h.pc = "account" =>
            /\ Len(h.new_rows) <= Len(h.products)
            /\ SubSeq(h.products, Len(h.products) - Len(h.new_rows) + 1,
                      Len(h.products)) = h.new_rows)
    /\ [](h.pc \in {"extract", "account", "report", "scroll"} =>
            h.scroll_calls = h.attempts - 1)
    /\ [](h.pc \in {"check", "wait"} => h.scroll_calls = h.attempts)
    /\ [](h.stop_msg => h.pc \in {"return", "done"})
    /\ [][(h.pc = "check" /\ h'.stop_msg) => h'.pc = "return"]_vars

\* the call has returned, exhausted, after six rounds or more
RoundOrderingWitness ==
    /\ h.pc = "done"
    /\ h.stop_msg
    /\ h.attempts >= 6
    /\ h.scroll_calls = h.attempts
    /\ h.products # << >>

\* pg with the scroll position of element s at t and nothing else changed
WithScrollTop(pg, s, t) ==
    IF s[1] = "anc" THEN [pg EXCEPT !.anc[s[2]].top = t]
                    ELSE [pg EXCEPT !.desc[s[2]].top = t]

\* C18 (scroll frame condition): a scroll step that finds no table or resolves
\* no scroller reports ok = false with the reason and leaves the document as
\* it is; one that resolves a scroller sets that element's scrollTop to
\* min(prev + clientHeight, max) and changes nothing else, and reports the
\* positions before and after.
ScrollFrameCondition ==
    [][(h.pc = "scroll" /\ h'.pc = "check") =>
         IF ~page.table
             THEN h'.scrolled = NoTable /\ page' = page
         ELSE IF getScroller(page) = NoScroller
             THEN /\ h'.scrolled = [ok |-> FALSE, reason |-> "no-scroller"]
                  /\ page' = page
         ELSE LET s == getScroller(page)
                  e == ElementAt(page, s)
                  t == Min(e.top + e.ch, e.sh - e.ch)
              IN  /\ page' = WithScrollTop(page, s, t)
                  /\ h'.scrolled = [ok |-> TRUE, prev |-> e.top, now |-> t,
                                    max |-> e.sh - e.ch]]_vars

\* a div inside the table was scrolled down; the span before it, scrollable
\* but for its tag, is where it was
ScrollFrameWitness ==
    /\ h.pc = "check"
    /\ h.scrolled.ok
    /\ h.scrolled.now > h.scrolled.prev
    /\ Len(page.desc) = 2
    /\ page.desc[1].top = 0
    /\ page.desc[2].top = h.scrolled.now

\* the scroll step of the round moved the viewport
Moved(scrolled) ==
    scrolled # None /\ scrolled.ok /\ scrolled.now # scrolled.prev

-----------------------------------------------------------------------------
(* Scroller resolution *)

ScrollableAbove(pg) == { i \in BelowBody(pg) : IsScrollable(pg.anc[i]) }

ScrollableInside(pg, tags) ==
    { j \in DOMAIN pg.desc : pg.desc[j].tag \in tags /\ IsScrollable(pg.desc[j]) }

AnyTag == {"div", "span", "section"}

\* the resolver's answer r for page pg, descendants of the tags given counting
Resolves(pg, r, tags) ==
    /\ r = NoScroller <=>
          ScrollableAbove(pg) = {} /\ ScrollableInside(pg, tags) = {}
    /\ r # NoScroller /\ r[1] = "anc" =>
          /\ r[2] \in ScrollableAbove(pg)
          /\ \A k \in ScrollableAbove(pg) : r[2] <= k
    /\ r # NoScroller /\ r[1] = "desc" =>
          /\ ScrollableAbove(pg) = {}
          /\ r[2] \in ScrollableInside(pg, tags)

\* the scroll steps and the reset act on the element resolved
ActsOnResolved ==
    /\ (h.pc = "check" /\ getScroller(page) = NoScroller)
          => h.scrolled = [ok |-> FALSE, reason |-> "no-scroller"]
    /\ (h.pc = "check" /\ getScroller(page) # NoScroller)
          => /\ h.scrolled.ok
             /\ ElementAt(page, getScroller(page)).top = h.scrolled.now
    /\ (h.pc = "loop" /\ h.attempts = 0 /\ getScroller(page) # NoScroller)
          => ElementAt(page, getScroller(page)).top = 0

\* C19 as stated (scroller resolution): the nearest scrollable node from the
\* table up to body, body excluded; failing that a scrollable element of the
\* table's subtree, of whatever kind; no-scroller exactly when there is
\* neither.
ScrollerResolutionAnyKind ==
    /\ Resolves(page, getScroller(page), AnyTag)
    /\ ActsOnResolved

\* C19 as amended: the nearest scrollable node from the table up to body,
\* body excluded; failing that the first scrollable div of the table's
\* subtree in document order, elements of other kinds not counting;
\* no-scroller exactly when there is neither.
ScrollerResolution ==
    /\ Resolves(page, getScroller(page), {"div"})
    /\ getScroller(page) # NoScroller /\ getScroller(page)[1] = "desc" =>
          \A k \in ScrollableInside(page, {"div"}) : getScroller(page)[2] <= k
    /\ ActsOnResolved

\* a scroll step has found no scroller in a page whose body and whose span
\* inside the table are scrollable
ScrollerResolutionWitness ==
    /\ h.pc = "check"
    /\ h.scrolled = [ok |-> FALSE, reason |-> "no-scroller"]
    /\ \E i \in DOMAIN page.anc : page.anc[i].tag = "body" /\ IsScrollable(page.anc[i])
    /\ ScrollableInside(page, {"span"}) # {}

=============================================================================
